---- MODULE Spec2Model ----
(***************************************************************************)
(* Job orchestration of the audio speaker-separation service               *)
(* (processor/services.py, processor/views.py).                            *)
(*                                                                         *)
(* One job is followed from the moment create_processing_job has stored    *)
(* it.  These threads of control act on it:                                *)
(*   - the spawner   (start_processing_job, the request thread of upload), *)
(*   - the unit      (run_job / run_separation_pipeline, a daemon thread), *)
(*   - the canceller (cancel_job_view -> cancel_job, a request thread),    *)
(*   - the poller    (get_job_status, with the reaper                      *)
(*                    clean_stale_cache_entries it calls now and then),    *)
(*   - status_api    (get_job_status called with the UUID of the URL),     *)
(*   - the shutdown  (signal_handler of apps.py, cancel_all_jobs),         *)
(*   - the labeller  (update_speaker_name -> update_speaker_label),        *)
(*   - the uploads of other jobs (upload_file -> start_processing_job),    *)
(*   - get_job_status and cancel_job for an id that has no row.            *)
(* Each specification below runs the unit with some of the others.         *)
(* Shared state is the durable row of the job (ProcessingJob) and the      *)
(* three module globals job_statuses, job_cancellations and job_threads.   *)
(* Every access to the row or to a global is a step of its own, so that    *)
(* the threads interleave as Python threads do: update_job_status is four  *)
(* steps (flag check, cache write, row read, row save).                    *)
(* The fallback speaker assignment and the cutting of the tracks are pure  *)
(* functions of the transcript; SpecTranscript applies them to every       *)
(* transcript within the bounds.                                           *)
(***************************************************************************)
EXTENDS Integers, Naturals, Sequences, FiniteSets, TLC

\* ----------------------------------------------------------------- bounds
\* Largest number of speaker identities a genuine engine result may hold.
MaxSpeakers == 2
\* Number of cancel requests the canceller thread may issue in a run.
MaxCancels == 1
\* Largest number of whitespace characters around the text of a label.
MaxPad == 1
\* Largest number of segments of a transcript, and its last whole second.
MaxSegments == 3
MaxTime == 5
\* Number of other jobs that may be uploaded while the job runs.
MaxOthers == 2

\* ------------------------------------------------------ program constants
\* range(5) of _run_mock_whisperx.
MockSteps == 5
\* The fixed mock result names SPEAKER_00 and SPEAKER_01.
MockSpeakers == 2
\* The gap heuristic toggles current_speaker between 0 and 1.
HeuristicSpeakers == 2
\* max_length of SpeakerLabelForm.speaker_label and SpeakerTrack.speaker_label.
MaxLabelLen == 100
\* start_time - last_end_time > 2.0 of the fallback speaker assignment.
GapSeconds == 2
\* AudioSegment.silent(duration=500) of separate_speakers.
SilenceMs == 500
\* getattr(settings, 'DIARIZATION_MAX_SPEAKERS', 8): most speakers the
\* diarization pipeline is asked for.
DiarizationMaxSpeakers == 8
\* settings.MAX_CONCURRENT_JOBS, by default.
MaxConcurrentJobs == 2

\* ------------------------------------------------------------------ values
\* A local variable that holds no ProcessingJob instance.
NoJob ==
    [status |-> "none", step |-> "none", progress |-> 0, error_message |-> "none",
     started_at |-> FALSE, completed_at |-> "none", speaker_count |-> 0]

\* job_id not in job_statuses.
NoEntry == [status |-> "none", step |-> "none", progress |-> 0]

\* The dictionary update_job_status stores in job_statuses (message left out).
Snapshot(st, sp, pr) == [status |-> st, step |-> sp, progress |-> pr]

\* The status dictionary get_job_status builds from a row.
SnapshotOf(job) == Snapshot(job.status, job.step, job.progress)

\* ProcessingJob.objects.create(..., status='pending'): the field defaults.
NewJob ==
    [status |-> "pending", step |-> "uploaded", progress |-> 0, error_message |-> "none",
     started_at |-> FALSE, completed_at |-> "none", speaker_count |-> 0]

\* What the program holds for a job id that no ProcessingJob row has: no row,
\* no entry in job_statuses, job_cancellations or job_threads.
\* No label request has been made yet.
NoRequest == [speaker |-> 0, label |-> [core |-> 0, trail |-> 0, legal |-> TRUE]]

NoRecord == [row |-> FALSE, cache |-> NoEntry, flag |-> FALSE, threads |-> FALSE]

VARIABLES
    row,        \* the durable ProcessingJob row of the job
    cache,      \* job_statuses[job_id], or NoEntry
    flag,       \* job_cancellations.get(job_id, False)
    threads,    \* job_id in job_threads
    tracks,     \* number of SpeakerTrack rows of the job
    files,      \* number of per-speaker output files written
    wav,        \* the converted WAV file of the job exists
    timedOut,   \* timezone.now() - started_at > 30 minutes
    spc,        \* spawner: position in start_processing_job
    upc,        \* unit: position in the pipeline
    usub,       \* unit: position inside the update_job_status call at upc
    ujob,       \* unit: the local variable job
    n,          \* unit: number of speaker identities of transcription_result
    mock,       \* unit: transcription_result is the mock_result of _run_mock_whisperx
    idx,        \* unit: loop index (i, speaker_idx)
    observed,   \* unit: a check_job_cancelled call has returned True
    cpc,        \* canceller: position in cancel_job_view / cancel_job
    cjob,       \* canceller: the local variable job of update_job_status
    cancels,    \* canceller: cancel requests issued so far
    cres,       \* canceller: outcome of the last cancel request
    early,      \* canceller: a cancel_job call returned before convert_to_wav was called
    qpc,        \* poller: position in get_job_status / clean_stale_cache_entries
    qjob,       \* poller: the local variable job
    stale,      \* poller: the job was stale when the running scan began
    reaped,     \* poller: the running scan has force-failed the job
    polled,     \* poller: what the last get_job_status call returned
    mpolled,    \* poller: what the last get_job_status call for the unknown id returned
    missing,    \* the globals and the table, as far as they concern the unknown id
    apc,        \* status_api: position in get_job_status
    ajob,       \* status_api: the local variable job
    acache,     \* job_statuses[job_id] under the uuid.UUID key status_api passes
    apolled,    \* status_api: what the last call returned
    hpc,        \* shutdown: position in signal_handler / cancel_all_jobs
    hmode,      \* shutdown: "signal" (signal_handler) or "call" (cancel_all_jobs)
    hjob,       \* shutdown: the local variable job of update_job_status
    hcount,     \* shutdown: cancelled_count
    lpc,        \* update_speaker_name: position in the view
    lin,        \* update_speaker_name: the speaker_id and speaker_label of the request
    lres,       \* update_speaker_name: the response of the last request
    tlabel,     \* SpeakerTrack.speaker_label of each track, as the length of its text
    segs,       \* a transcript: the segments of result["segments"]
    spk,        \* the speaker identities the heuristic gave to segs
    tlen,       \* length in ms of the track of each identity
    others,     \* processing units of other jobs that are running
    mcpc,       \* cancel_job for the unknown id: position
    mres        \* cancel_job for the unknown id: what the last call returned

vars ==
    <<row, cache, flag, threads, tracks, files, wav, timedOut, spc, upc, usub, ujob, n, mock,
      idx, observed, cpc, cjob, cancels, cres, early, qpc, qjob, stale, reaped, polled,
      mpolled, missing, apc, ajob, acache, apolled, hpc, hmode, hjob, hcount,
      lpc, lin, lres, tlabel, segs, spk, tlen, others, mcpc, mres>>

shared == <<row, cache, flag, threads, tracks, files, wav, timedOut>>
spawnerVars == <<spc>>
unitVars == <<upc, usub, ujob, n, mock, idx, observed>>
cancelVars == <<cpc, cjob, cancels, cres, early>>
pollVars == <<qpc, qjob, stale, reaped, polled>>
missVars == <<mpolled, missing>>
apiVars == <<apc, ajob, acache, apolled>>
shutVars == <<hpc, hmode, hjob, hcount>>
labelVars == <<lpc, lin, lres, tlabel>>
transVars == <<segs, spk, tlen>>
poolVars == <<others>>
mcancelVars == <<mcpc, mres>>
moreVars == <<labelVars, transVars, poolVars, mcancelVars>>
restVars == <<missVars, apiVars, shutVars, moreVars>>

\* State after upload_file has run create_processing_job: the row is stored
\* and job_statuses holds the 'pending' entry; no thread is started yet.
InitJob ==
    /\ row = NewJob
    /\ cache = Snapshot("pending", "uploaded", 0)
    /\ flag = FALSE
    /\ threads = FALSE
    /\ tracks = 0
    /\ files = 0
    /\ wav = FALSE
    /\ timedOut = FALSE
    /\ spc = "created"
    /\ upc = "idle"
    /\ usub = "none"
    /\ ujob = NoJob
    /\ n = 0
    /\ mock = FALSE
    /\ idx = 0
    /\ observed = FALSE
    /\ cpc = "idle"
    /\ cjob = NoJob
    /\ cancels = 0
    /\ cres = "none"
    /\ early = FALSE
    /\ qpc = "idle"
    /\ qjob = NoJob
    /\ stale = FALSE
    /\ reaped = FALSE
    /\ polled = NoEntry
    /\ mpolled = NoEntry
    /\ missing = NoRecord
    /\ apc = "idle"
    /\ ajob = NoJob
    /\ acache = NoEntry
    /\ apolled = NoEntry
    /\ hpc = "idle"
    /\ hmode = "none"
    /\ hjob = NoJob
    /\ hcount = 0
    /\ lpc = "idle"
    /\ lin = NoRequest
    /\ lres = "none"
    /\ tlabel = [t \in 0..(MaxSpeakers - 1) |-> 0]
    /\ spk = <<>>
    /\ tlen = <<>>
    /\ others = 0
    /\ mcpc = "idle"
    /\ mres = "none"

Init == InitJob /\ segs = <<>>

\* ------------------------------------------------------- the unit's program
\* An update_job_status(job_id, st, sp, pr) call, then the statement at nx.
Ujs(st, sp, pr, nx) ==
    [op |-> "ujs", status |-> st, step |-> sp, progress |-> pr, next |-> nx]

\* if self.check_job_cancelled(job_id): raise Exception("Job cancelled by user")
Chk(nx) == [op |-> "check", next |-> nx]

\* A call of an external collaborator (file system, pydub, whisperx): it
\* returns, and the unit goes on at nx, or it raises.
Ext(nx) == [op |-> "ext", next |-> nx]

\* A statement with an effect of its own; UnitStep gives its effect.
Stmt == [op |-> "stmt"]

SpeakerProgressUnscaled(speaker_idx, total_speakers) == 65 + (speaker_idx * 20)
\* speaker_progress = 65 + (speaker_idx * 20 // total_speakers)
SpeakerProgress(speaker_idx, total_speakers) ==
    65 + ((speaker_idx * 20) \div total_speakers)

\* progress = 92 + (i * 6 // len(speaker_files))
TrackProgress(i, count) == 92 + ((i * 6) \div count)

\* progress = 35 + (i + 1) * 5
MockProgress(i) == 35 + (i + 1) * 5

\* The statements of run_separation_pipeline and of the stage methods it
\* calls, in program order, each under the label the unit's position names.
Instr(l) ==
    CASE l = "p_init"       -> Ujs("processing", "initializing", 5, "cv_chk1")
      \* convert_to_wav
      [] l = "cv_chk1"      -> Chk("cv_ujs10")
      [] l = "cv_ujs10"     -> Ujs("processing", "converting", 10, "cv_exists")
      [] l = "cv_exists"    -> Ext("cv_ujs15")
      [] l = "cv_ujs15"     -> Ujs("processing", "converting", 15, "cv_chk2")
      [] l = "cv_chk2"      -> Chk("cv_load")
      [] l = "cv_load"      -> Stmt
      [] l = "cv_retry"     -> Ext("cv_ujs20")
      [] l = "cv_ujs20"     -> Ujs("processing", "converting", 20, "cv_chk3")
      [] l = "cv_chk3"      -> Chk("cv_export")
      [] l = "cv_export"    -> Ext("cv_ujs25")
      [] l = "cv_ujs25"     -> Ujs("processing", "converting", 25, "wx_chk1")
      \* run_whisperx_transcription
      [] l = "wx_chk1"      -> Chk("wx_ujs30")
      [] l = "wx_ujs30"     -> Ujs("processing", "transcribing", 30, "wx_import")
      [] l = "wx_import"    -> Ext("wx_ujs35")
      [] l = "wx_ujs35"     -> Ujs("processing", "transcribing", 35, "wx_load")
      [] l = "wx_load"      -> Ext("wx_chk2")
      [] l = "wx_chk2"      -> Chk("wx_ujs40")
      [] l = "wx_ujs40"     -> Ujs("processing", "transcribing", 40, "wx_transcribe")
      [] l = "wx_transcribe" -> Ext("wx_chk3")
      [] l = "wx_chk3"      -> Chk("wx_ujs50")
      [] l = "wx_ujs50"     -> Ujs("processing", "transcribing", 50, "wx_align")
      [] l = "wx_align"     -> Stmt
      [] l = "wx_noalign"   -> Stmt
      [] l = "wx_chk4"      -> Chk("wx_ujs55")
      [] l = "wx_ujs55"     -> Ujs("processing", "transcribing", 55, "wx_diarize")
      [] l = "wx_diarize"   -> Stmt
      [] l = "wx_ujs58"     -> Ujs("processing", "transcribing", 58, "wx_assign")
      [] l = "wx_assign"    -> Stmt
      [] l = "wx_fallback"  -> Stmt
      [] l = "wx_ret"       -> Stmt
      \* _run_mock_whisperx
      [] l = "mk_ujs35"     -> Ujs("processing", "transcribing", 35, "mk_loop")
      [] l = "mk_loop"      -> Stmt
      [] l = "mk_ujs"       -> Ujs("processing", "transcribing", MockProgress(idx), "mk_next")
      [] l = "mk_next"      -> Stmt
      \* separate_speakers
      [] l = "sp_chk1"      -> Chk("sp_ujs60")
      [] l = "sp_ujs60"     -> Ujs("processing", "separating", 60, "sp_load")
      [] l = "sp_load"      -> Ext("sp_loop")
      [] l = "sp_loop"      -> Stmt
      [] l = "sp_chk2"      -> Chk("sp_ujs")
      [] l = "sp_ujs"       -> Ujs("processing", "separating", SpeakerProgress(idx, n), "sp_export")
      [] l = "sp_export"    -> Stmt
      \* finalize_processing
      [] l = "fn_ujs90"     -> Ujs("processing", "finalizing", 90, "fn_get")
      [] l = "fn_get"       -> Stmt
      [] l = "fn_save"      -> Stmt
      [] l = "fn_loop"      -> Stmt
      [] l = "fn_wav"       -> Ext("fn_track")
      [] l = "fn_track"     -> Stmt
      [] l = "fn_ujs"       -> Ujs("processing", "finalizing", TrackProgress(idx, n), "fn_next")
      [] l = "fn_next"      -> Stmt
      [] l = "fn_ujs100"    -> Ujs("completed", "completed", 100, "p_cleanup")
      [] l = "p_cleanup"    -> Stmt
      \* except Exception of run_separation_pipeline
      [] l = "err_ujs"      -> Ujs("failed", "error", 0, "err_get")
      [] l = "err_get"      -> Stmt
      [] l = "err_save"     -> Stmt
      \* finally of run_job
      [] l = "rj_threads"   -> Stmt
      [] l = "rj_flags"     -> Stmt
      [] OTHER              -> [op |-> "none"]

\* A mock result whose six segments all carry SPEAKER_00.
MockResultOneSpeaker == <<0, 0, 0, 0, 0, 0>>

\* mock_result of _run_mock_whisperx, lines 594-632: the speaker of each of
\* its segments (0 for SPEAKER_00, 1 for SPEAKER_01).
MockResult == <<0, 1, 0, 1, 0, 1>>

\* separate_speakers, lines 675-680: the number of keys of speaker_segments,
\* one for every speaker that has a segment.
SpeakerCount(result) == Cardinality({result[i] : i \in 1..Len(result)})

\* The positions of the unit before run_separation_pipeline calls
\* convert_to_wav (line 801).
BeforeConvert == {"idle", "p_init"}

\* The statements inside the try of run_whisperx_transcription.
WxLabels ==
    {"wx_chk1", "wx_ujs30", "wx_import", "wx_ujs35", "wx_load", "wx_chk2", "wx_ujs40",
     "wx_transcribe", "wx_chk3", "wx_ujs50", "wx_align", "wx_noalign", "wx_chk4",
     "wx_ujs55",
     "wx_diarize", "wx_ujs58", "wx_assign", "wx_fallback", "wx_ret"}

\* Where an exception raised at l is handled: inside run_whisperx_transcription
\* the outer except calls _run_mock_whisperx, everywhere else the exception
\* reaches the except of run_separation_pipeline.
Handler(l) == IF l \in WxLabels THEN "mk_ujs35" ELSE "err_ujs"

\* The stage each statement belongs to.
StageOf(l) ==
    CASE l \in {"cv_chk1", "cv_ujs10", "cv_exists", "cv_ujs15", "cv_chk2", "cv_load",
                "cv_retry", "cv_ujs20", "cv_chk3", "cv_export", "cv_ujs25"} -> "convert_to_wav"
      [] l \in WxLabels -> "run_whisperx_transcription"
      [] l \in {"mk_ujs35", "mk_loop", "mk_ujs", "mk_next"} -> "_run_mock_whisperx"
      [] l \in {"sp_chk1", "sp_ujs60", "sp_load", "sp_loop", "sp_chk2", "sp_ujs",
                "sp_export"} -> "separate_speakers"
      [] l \in {"fn_ujs90", "fn_get", "fn_save", "fn_loop", "fn_wav", "fn_track", "fn_ujs",
                "fn_next", "fn_ujs100"} -> "finalize_processing"
      [] OTHER -> "none"

\* ------------------------------------------------------- update_job_status
\* The guard of update_job_status: a cancelled job takes no update whose
\* status is neither 'failed' nor 'cancelled'.
SkipsUpdate(cancelled, st) == cancelled /\ st \notin {"failed", "cancelled"}

UpdatedJobStatusOnly(job, st, sp, pr) == [job EXCEPT !.status = st]
\* The instance update_job_status saves: the instance it read, with status,
\* step and progress set, the cancellation message and the timestamps.
\* completed_at holds the timezone.now() of a write, and two writes read two
\* different times: the value is "none" for None, and otherwise the step of
\* the write that took the time.
UpdatedJob(job, st, sp, pr) ==
    [job EXCEPT
        !.status = st,
        !.step = sp,
        !.progress = pr,
        !.error_message = IF st = "failed" /\ sp = "cancelled" THEN "cancelled" ELSE @,
        !.started_at = IF st = "processing" /\ ~@ THEN TRUE ELSE @,
        !.completed_at =
            IF st = "processing" /\ ~job.started_at THEN @
            ELSE IF st \in {"completed", "failed"} THEN sp ELSE @]

\* Whether the 30 minutes have passed for the started_at a save stores: a
\* started_at the save has just set to now, or left unset, is not in the past.
TimedOutAfterSave(read, saved) ==
    IF read.started_at /\ saved.started_at THEN timedOut ELSE FALSE

\* ------------------------------------------------------------------ spawner
\* start_processing_job: thread.start()
StartThread ==
    /\ spc = "created"
    /\ spc' = "started"
    /\ upc' = "p_init"
    /\ UNCHANGED <<shared, usub, ujob, n, mock, idx, observed, cancelVars, pollVars, restVars>>

\* start_processing_job: job_threads[job_id] = thread
RegisterThread ==
    /\ spc = "started"
    /\ spc' = "registered"
    /\ threads' = TRUE
    /\ UNCHANGED <<row, cache, flag, tracks, files, wav, timedOut, unitVars, cancelVars,
                   pollVars, restVars>>

\* --------------------------------------------------------------------- unit
\* An exception raised at the unit's position: control goes to its handler.
Raise ==
    /\ upc' = Handler(upc)
    /\ usub' = "none"
    /\ idx' = 0

\* check_job_cancelled at a cancellation check of a stage.
UnitCheck ==
    /\ Instr(upc).op = "check"
    /\ IF flag
       THEN /\ observed' = TRUE
            /\ Raise
       ELSE /\ upc' = Instr(upc).next
            /\ UNCHANGED <<usub, idx, observed>>
    /\ UNCHANGED <<shared, ujob, n, mock, spawnerVars, cancelVars, pollVars, restVars>>

\* An external call returns or raises.
UnitExt ==
    /\ Instr(upc).op = "ext"
    /\ \/ /\ upc' = Instr(upc).next
          /\ wav' = IF upc = "cv_export" THEN TRUE ELSE wav
          /\ UNCHANGED <<usub, idx>>
       \/ /\ Raise
          /\ UNCHANGED wav
    /\ UNCHANGED <<row, cache, flag, threads, tracks, files, timedOut, ujob, n, mock, observed,
                   spawnerVars, cancelVars, pollVars, restVars>>

\* update_job_status, line 167: the guard.
UnitUjsCheck ==
    /\ Instr(upc).op = "ujs"
    /\ usub = "none"
    /\ IF SkipsUpdate(flag, Instr(upc).status)
       THEN /\ upc' = Instr(upc).next
            /\ UNCHANGED usub
       ELSE /\ usub' = "cache"
            /\ UNCHANGED upc
    /\ UNCHANGED <<shared, ujob, n, mock, idx, observed, spawnerVars, cancelVars, pollVars, restVars>>

\* update_job_status, line 174: job_statuses[job_id] = {...}
UnitUjsCache ==
    /\ Instr(upc).op = "ujs"
    /\ usub = "cache"
    /\ cache' = Snapshot(Instr(upc).status, Instr(upc).step, Instr(upc).progress)
    /\ usub' = "get"
    /\ UNCHANGED <<row, flag, threads, tracks, files, wav, timedOut, upc, ujob, n, mock, idx,
                   observed, spawnerVars, cancelVars, pollVars, restVars>>

\* update_job_status, line 183: job = ProcessingJob.objects.get(job_id=job_id)
UnitUjsGet ==
    /\ Instr(upc).op = "ujs"
    /\ usub = "get"
    /\ ujob' = row
    /\ usub' = "save"
    /\ UNCHANGED <<shared, upc, n, mock, idx, observed, spawnerVars, cancelVars, pollVars, restVars>>

\* update_job_status, lines 184-199: set the fields and job.save()
UnitUjsSave ==
    /\ Instr(upc).op = "ujs"
    /\ usub = "save"
    /\ row' = UpdatedJob(ujob, Instr(upc).status, Instr(upc).step, Instr(upc).progress)
    /\ timedOut' = TimedOutAfterSave(ujob, row')
    /\ ujob' = NoJob
    /\ usub' = "none"
    /\ upc' = Instr(upc).next
    /\ UNCHANGED <<cache, flag, threads, tracks, files, wav, n, mock, idx, observed, spawnerVars,
                   cancelVars, pollVars, restVars>>

\* The unit is at statement l, outside any update_job_status call.
At(l) == upc = l /\ usub = "none"

\* settings.ALLOWED_AUDIO_FORMATS: the extensions an uploaded file may have.
AllowedAudioFormats == {".mp3", ".wav", ".flac", ".m4a", ".aac", ".ogg"}

\* The extensions the except branch of convert_to_wav decodes again.
RetryFormats == {".mp3", ".wav", ".flac", ".m4a"}

\* convert_to_wav, lines 249-265: AudioSegment.from_file; when it raises, one
\* more attempt with the format of the file extension, or the bare raise of
\* the else branch when the extension is none of the four.
ConvertLoad ==
    /\ At("cv_load")
    /\ \E decoded \in BOOLEAN, file_extension \in AllowedAudioFormats :
          IF decoded
          THEN upc' = "cv_ujs20" /\ UNCHANGED <<usub, idx>>
          ELSE IF file_extension \in RetryFormats
               THEN upc' = "cv_retry" /\ UNCHANGED <<usub, idx>>
               ELSE Raise
    /\ UNCHANGED <<shared, ujob, n, mock, observed, spawnerVars, cancelVars, pollVars, restVars>>

\* run_whisperx_transcription, lines 386-418: the alignment runs to its end,
\* or it times out or fails.  In a thread other than the main thread, as the
\* unit is, signal.signal (line 401) raises ValueError before whisperx.align
\* is called.
Align ==
    /\ At("wx_align")
    /\ upc' \in {"wx_chk4", "wx_noalign"}
    /\ UNCHANGED <<shared, usub, ujob, n, mock, idx, observed, spawnerVars, cancelVars, pollVars, restVars>>

AlignSkippedRaises ==
    /\ At("wx_noalign")
    /\ Raise
    /\ UNCHANGED <<shared, ujob, n, mock, observed, spawnerVars, cancelVars, pollVars, restVars>>
\* Lines 420-427: except TimeoutError and except Exception log a warning and
\* go on with the result of the transcription.
AlignSkipped ==
    /\ At("wx_noalign")
    /\ upc' = "wx_chk4"
    /\ UNCHANGED <<shared, usub, ujob, n, mock, idx, observed, spawnerVars, cancelVars, pollVars, restVars>>

\* Lines 445-480: the diarization pipeline runs, or it times out or fails.
Diarize ==
    /\ At("wx_diarize")
    /\ upc' \in {"wx_ujs58", "wx_fallback"}
    /\ UNCHANGED <<shared, usub, ujob, n, mock, idx, observed, spawnerVars, cancelVars, pollVars, restVars>>

\* Line 496: whisperx.assign_word_speakers, inside the same try.
AssignSpeakers ==
    /\ At("wx_assign")
    /\ upc' \in {"wx_ret", "wx_fallback"}
    /\ UNCHANGED <<shared, usub, ujob, n, mock, idx, observed, spawnerVars, cancelVars, pollVars, restVars>>

\* Lines 511-559: the gap heuristic labels the segments SPEAKER_00/SPEAKER_01.
HeuristicFallback ==
    /\ At("wx_fallback")
    /\ n' \in 0..HeuristicSpeakers
    /\ mock' = FALSE
    /\ upc' = "sp_chk1"
    /\ UNCHANGED <<shared, usub, ujob, idx, observed, spawnerVars, cancelVars, pollVars, restVars>>

\* Line 566: return result, with the speakers the engine assigned.
TranscriptionReturn ==
    /\ At("wx_ret")
    /\ n' \in 0..MaxSpeakers
    /\ mock' = FALSE
    /\ upc' = "sp_chk1"
    /\ UNCHANGED <<shared, usub, ujob, idx, observed, spawnerVars, cancelVars, pollVars, restVars>>

\* _run_mock_whisperx, line 586: for i in range(5); line 646: return mock_result
MockLoop ==
    /\ At("mk_loop")
    /\ IF idx < MockSteps
       THEN /\ upc' = "mk_ujs"
            /\ UNCHANGED <<n, mock, idx>>
       ELSE /\ upc' = "sp_chk1"
            /\ n' = SpeakerCount(MockResult)
            /\ mock' = TRUE
            /\ idx' = 0
    /\ UNCHANGED <<shared, usub, ujob, observed, spawnerVars, cancelVars, pollVars, restVars>>

MockNext ==
    /\ At("mk_next")
    /\ idx' = idx + 1
    /\ upc' = "mk_loop"
    /\ UNCHANGED <<shared, usub, ujob, n, mock, observed, spawnerVars, cancelVars, pollVars, restVars>>

\* separate_speakers, line 691: for speaker_idx, ... in enumerate(...); line 722.
SeparateLoop ==
    /\ At("sp_loop")
    /\ IF idx < n
       THEN /\ upc' = "sp_chk2"
            /\ UNCHANGED idx
       ELSE /\ upc' = "fn_ujs90"
            /\ idx' = 0
    /\ UNCHANGED <<shared, usub, ujob, n, mock, observed, spawnerVars, cancelVars, pollVars, restVars>>

\* Lines 703-719: cut the spans and export the speaker's file.
SeparateExport ==
    /\ At("sp_export")
    /\ \/ /\ files' = files + 1
          /\ idx' = idx + 1
          /\ upc' = "sp_loop"
          /\ UNCHANGED usub
       \/ /\ Raise
          /\ UNCHANGED files
    /\ UNCHANGED <<row, cache, flag, threads, tracks, wav, timedOut, ujob, n, mock, observed,
                   spawnerVars, cancelVars, pollVars, restVars>>

\* finalize_processing, line 737: job = ProcessingJob.objects.get(job_id=job_id)
FinalizeGet ==
    /\ At("fn_get")
    /\ ujob' = row
    /\ upc' = "fn_save"
    /\ UNCHANGED <<shared, usub, n, mock, idx, observed, spawnerVars, cancelVars, pollVars, restVars>>

\* Lines 738-740: speaker_count, output_directory (speaker_files[0] raises
\* IndexError on an empty list) and job.save(), which writes every field.
FinalizeSave ==
    /\ At("fn_save")
    /\ IF n = 0
       THEN /\ Raise
            /\ UNCHANGED <<row, timedOut>>
       ELSE /\ row' = [ujob EXCEPT !.speaker_count = n]
            /\ timedOut' = TimedOutAfterSave(ujob, ujob)
            /\ upc' = "fn_loop"
            /\ UNCHANGED <<usub, idx>>
    /\ ujob' = NoJob
    /\ UNCHANGED <<cache, flag, threads, tracks, files, wav, n, mock, observed, spawnerVars,
                   cancelVars, pollVars, restVars>>

\* Line 754: for i, speaker_file in enumerate(speaker_files)
FinalizeLoop ==
    /\ At("fn_loop")
    /\ IF idx < n
       THEN /\ upc' = "fn_wav"
            /\ UNCHANGED idx
       ELSE /\ upc' = "fn_ujs100"
            /\ idx' = 0
    /\ UNCHANGED <<shared, usub, ujob, n, mock, observed, spawnerVars, cancelVars, pollVars, restVars>>

\* Lines 767-773: SpeakerTrack.objects.create(...)
CreateTrack ==
    /\ At("fn_track")
    /\ tracks' = tracks + 1
    /\ upc' = "fn_ujs"
    /\ UNCHANGED <<row, cache, flag, threads, files, wav, timedOut, usub, ujob, n, mock, idx,
                   observed, spawnerVars, cancelVars, pollVars, restVars>>

FinalizeNext ==
    /\ At("fn_next")
    /\ idx' = idx + 1
    /\ upc' = "fn_loop"
    /\ UNCHANGED <<shared, usub, ujob, n, mock, observed, spawnerVars, cancelVars, pollVars, restVars>>

\* run_separation_pipeline, lines 822-827: remove the converted file.
Cleanup ==
    /\ At("p_cleanup")
    /\ wav' = FALSE
    /\ upc' = "rj_threads"
    /\ UNCHANGED <<row, cache, flag, threads, tracks, files, timedOut, usub, ujob, n, mock, idx,
                   observed, spawnerVars, cancelVars, pollVars, restVars>>

\* Line 840: job = ProcessingJob.objects.get(job_id=job_id)
ErrorGet ==
    /\ At("err_get")
    /\ ujob' = row
    /\ upc' = "err_save"
    /\ UNCHANGED <<shared, usub, n, mock, idx, observed, spawnerVars, cancelVars, pollVars, restVars>>

\* str(e) of the exception the handler has caught: a text within the length
\* bound of an error message ("error"), or a longer one ("error_long"), such
\* as the ffmpeg output a pydub decoding error carries.
ExceptionTexts == {"error", "error_long"}

\* Lines 841-842: job.error_message = str(e); job.save()
ErrorSave ==
    /\ At("err_save")
    /\ \E text \in ExceptionTexts : row' = [ujob EXCEPT !.error_message = text]
    /\ timedOut' = TimedOutAfterSave(ujob, ujob)
    /\ ujob' = NoJob
    /\ upc' = "rj_threads"
    /\ UNCHANGED <<cache, flag, threads, tracks, files, wav, usub, n, mock, idx, observed,
                   spawnerVars, cancelVars, pollVars, restVars>>

\* run_job, finally: del job_threads[job_id]
UnitDelThread ==
    /\ At("rj_threads")
    /\ threads' = FALSE
    /\ upc' = "rj_flags"
    /\ UNCHANGED <<row, cache, flag, tracks, files, wav, timedOut, usub, ujob, n, mock, idx,
                   observed, spawnerVars, cancelVars, pollVars, restVars>>

\* run_job, finally: del job_cancellations[job_id]
UnitDelFlag ==
    /\ At("rj_flags")
    /\ flag' = FALSE
    /\ upc' = "done"
    /\ UNCHANGED <<row, cache, threads, tracks, files, wav, timedOut, usub, ujob, n, mock, idx,
                   observed, spawnerVars, cancelVars, pollVars, restVars>>

Unit ==
    \/ UnitCheck \/ UnitExt
    \/ UnitUjsCheck \/ UnitUjsCache \/ UnitUjsGet \/ UnitUjsSave
    \/ ConvertLoad \/ Align \/ AlignSkipped \/ Diarize \/ AssignSpeakers \/ HeuristicFallback
    \/ TranscriptionReturn \/ MockLoop \/ MockNext
    \/ SeparateLoop \/ SeparateExport
    \/ FinalizeGet \/ FinalizeSave \/ FinalizeLoop \/ CreateTrack \/ FinalizeNext
    \/ Cleanup \/ ErrorGet \/ ErrorSave \/ UnitDelThread \/ UnitDelFlag

\* ---------------------------------------------------------------- canceller
\* cancel_job_view, lines 210-218: load the job; a job that is neither
\* pending nor processing is answered with an error and cancel_job is not called.
CancelView ==
    /\ cpc = "idle"
    /\ cancels < MaxCancels
    /\ cancels' = cancels + 1
    /\ IF row.status \in {"pending", "processing"}
       THEN /\ cpc' = "cj_flag"
            /\ cres' = "none"
       ELSE /\ cpc' = "idle"
            /\ cres' = "rejected"
    /\ UNCHANGED <<shared, cjob, early, spawnerVars, unitVars, pollVars, restVars>>

\* cancel_job, line 143: job_cancellations[job_id] = True.  The guard of the
\* update_job_status call that follows lets status 'failed' through.
CancelSetFlag ==
    /\ cpc = "cj_flag"
    /\ flag' = TRUE
    /\ cpc' = IF SkipsUpdate(TRUE, "failed") THEN "cj_delcache" ELSE "cj_cache"
    /\ UNCHANGED <<row, cache, threads, tracks, files, wav, timedOut, cjob, cancels, cres, early,
                   spawnerVars, unitVars, pollVars, restVars>>

\* update_job_status(job_id, 'failed', 'cancelled', 0, ...), line 174
CancelCache ==
    /\ cpc = "cj_cache"
    /\ cache' = Snapshot("failed", "cancelled", 0)
    /\ cpc' = "cj_get"
    /\ UNCHANGED <<row, flag, threads, tracks, files, wav, timedOut, cjob, cancels, cres, early,
                   spawnerVars, unitVars, pollVars, restVars>>

\* ... line 183
CancelGet ==
    /\ cpc = "cj_get"
    /\ cjob' = row
    /\ cpc' = "cj_save"
    /\ UNCHANGED <<shared, cancels, cres, early, spawnerVars, unitVars, pollVars, restVars>>

\* ... lines 184-199
CancelSave ==
    /\ cpc = "cj_save"
    /\ row' = UpdatedJob(cjob, "failed", "cancelled", 0)
    /\ timedOut' = TimedOutAfterSave(cjob, row')
    /\ cjob' = NoJob
    /\ cpc' = "cj_delcache"
    /\ UNCHANGED <<cache, flag, threads, tracks, files, wav, cancels, cres, early, spawnerVars,
                   unitVars, pollVars, restVars>>

\* cancel_job, lines 149-150: del job_statuses[job_id]
CancelDelCache ==
    /\ cpc = "cj_delcache"
    /\ cache' = NoEntry
    /\ cpc' = "cj_delthreads"
    /\ UNCHANGED <<row, flag, threads, tracks, files, wav, timedOut, cjob, cancels, cres, early,
                   spawnerVars, unitVars, pollVars, restVars>>

\* cancel_job, lines 152-156: del job_threads[job_id]; return True
CancelDelThread ==
    /\ cpc = "cj_delthreads"
    /\ threads' = FALSE
    /\ cpc' = "idle"
    /\ cres' = "cancelled"
    /\ early' = (early \/ upc \in BeforeConvert)
    /\ UNCHANGED <<row, cache, flag, tracks, files, wav, timedOut, cjob, cancels,
                   spawnerVars, unitVars, pollVars, restVars>>

Canceller ==
    \/ CancelView \/ CancelSetFlag \/ CancelCache \/ CancelGet \/ CancelSave
    \/ CancelDelCache \/ CancelDelThread

\* ------------------------------------------------------------------- reaper
\* clean_stale_cache_entries, lines 857-859: the job has been processing for
\* more than 30 minutes.
IsStale(job) == job.status = "processing" /\ job.started_at /\ timedOut

\* Lines 864-868: the fields the reaper sets before job.save().
ReapedJob(job) ==
    [job EXCEPT
        !.status = "failed",
        !.step = "failed",
        !.progress = 0,
        !.error_message = "timeout",
        !.completed_at = "failed"]

\* clean_stale_cache_entries, line 852: the scan goes over the jobs that have
\* an entry in job_statuses.  It is called by get_job_status (lines 891-892,
\* one call in ten) and on its own (test_cache_cleanup).
ReaperStart ==
    /\ qpc = "idle"
    /\ stale' = IsStale(row)
    /\ reaped' = FALSE
    /\ qpc' = IF cache # NoEntry THEN "r_get" ELSE "r_end"
    /\ UNCHANGED <<shared, qjob, polled, spawnerVars, unitVars, cancelVars, restVars>>

\* Lines 854-859: load the job and test it.
ReaperGet ==
    /\ qpc = "r_get"
    /\ IF IsStale(row)
       THEN /\ qjob' = row
            /\ qpc' = "r_save"
       ELSE /\ qjob' = NoJob
            /\ qpc' = "r_end"
    /\ UNCHANGED <<shared, stale, reaped, polled, spawnerVars, unitVars, cancelVars, restVars>>

\* Lines 864-872: force the job to failed.
ReaperSave ==
    /\ qpc = "r_save"
    /\ row' = ReapedJob(qjob)
    /\ timedOut' = TimedOutAfterSave(qjob, qjob)
    /\ reaped' = TRUE
    /\ qjob' = NoJob
    /\ qpc' = "r_del"
    /\ UNCHANGED <<cache, flag, threads, tracks, files, wav, stale, polled, spawnerVars,
                   unitVars, cancelVars, restVars>>

\* Lines 879-882: del job_statuses[job_id]
ReaperDel ==
    /\ qpc = "r_del"
    /\ cache' = NoEntry
    /\ qpc' = "r_end"
    /\ UNCHANGED <<row, flag, threads, tracks, files, wav, timedOut, qjob, stale, reaped,
                   polled, spawnerVars, unitVars, cancelVars, restVars>>

\* The scan is over and clean_stale_cache_entries returns to a caller other
\* than get_job_status.
ReaperReturn ==
    /\ qpc = "r_end"
    /\ stale' = FALSE
    /\ reaped' = FALSE
    /\ qpc' = "idle"
    /\ UNCHANGED <<shared, qjob, polled, spawnerVars, unitVars, cancelVars, restVars>>

\* ------------------------------------------------------------ get_job_status
\* get_job_status as it would be with the cache consulted first.
StatusResultCacheFirst(job, entry) ==
    IF entry # NoEntry THEN entry ELSE SnapshotOf(job)

\* Lines 898-929: what get_job_status returns for the row it has loaded and
\* the cache entry it finds.
StatusResult(job, entry) ==
    IF job.status \in {"completed", "failed"} THEN SnapshotOf(job)
    ELSE IF entry # NoEntry THEN entry
    ELSE SnapshotOf(job)

\* Lines 907, 928: the entry job_statuses holds when get_job_status returns.
CacheAfterStatus(job, entry) ==
    IF job.status \in {"completed", "failed"} THEN SnapshotOf(job)
    ELSE IF entry # NoEntry THEN entry
    ELSE SnapshotOf(job)

\* Line 895: job = ProcessingJob.objects.get(job_id=job_id)
StatusGet ==
    /\ qpc \in {"idle", "r_end"}
    /\ qjob' = row
    /\ qpc' = "g_ret"
    /\ UNCHANGED <<shared, stale, reaped, polled, spawnerVars, unitVars, cancelVars, restVars>>

\* Lines 898-929: build the answer, store it in job_statuses, return it.
StatusReturn ==
    /\ qpc = "g_ret"
    /\ polled' = StatusResult(qjob, cache)
    /\ cache' = CacheAfterStatus(qjob, cache)
    /\ qjob' = NoJob
    /\ stale' = FALSE
    /\ reaped' = FALSE
    /\ qpc' = "idle"
    /\ UNCHANGED <<row, flag, threads, tracks, files, wav, timedOut, spawnerVars, unitVars,
                   cancelVars, restVars>>

Reaper == ReaperStart \/ ReaperGet \/ ReaperSave \/ ReaperDel \/ ReaperReturn

Poller == StatusGet \/ StatusReturn

\* ------------------------------------------- get_job_status, unknown job id
\* The dictionary of the except ProcessingJob.DoesNotExist branch, lines 933-938.
NotFound == Snapshot("not_found", "error", 0)

\* The not-found branch as it would be if it stored its answer in
\* job_statuses, as the other branches do.
MissingAfterStatusCached(m) == [m EXCEPT !.cache = NotFound]

\* Lines 931-938: the branch writes to no global and to no table.
MissingAfterStatus(m) == m

\* Line 895 for a job id that has no row: objects.get raises DoesNotExist.
StatusGetMissing ==
    /\ qpc \in {"idle", "r_end"}
    /\ ~missing.row
    /\ qpc' = "g_none"
    /\ UNCHANGED <<shared, qjob, stale, reaped, polled, missVars, spawnerVars, unitVars,
                   cancelVars, apiVars, shutVars, moreVars>>

\* Lines 931-938: return the not-found dictionary.
StatusNotFound ==
    /\ qpc = "g_none"
    /\ mpolled' = NotFound
    /\ missing' = MissingAfterStatus(missing)
    /\ stale' = FALSE
    /\ reaped' = FALSE
    /\ qpc' = "idle"
    /\ UNCHANGED <<shared, qjob, polled, spawnerVars, unitVars, cancelVars, apiVars,
                   shutVars, moreVars>>

MissingPoller == StatusGetMissing \/ StatusNotFound

\* ------------------------------------------------- get_job_status, status_api
\* views.status_api passes the uuid.UUID object of the URL converter, while
\* create_processing_job, update_job_status and cancel_job use the str of the
\* id: a UUID is equal to no str, so the call looks at entries of its own.
\* Line 895.
ApiGet ==
    /\ apc = "idle"
    /\ ajob' = row
    /\ apc' = "g_ret"
    /\ UNCHANGED <<shared, acache, apolled, spawnerVars, unitVars, cancelVars, pollVars,
                   missVars, shutVars, moreVars>>

\* Lines 898-929, with job_statuses[UUID] as the entry.
ApiReturn ==
    /\ apc = "g_ret"
    /\ apolled' = StatusResult(ajob, acache)
    /\ acache' = CacheAfterStatus(ajob, acache)
    /\ ajob' = NoJob
    /\ apc' = "idle"
    /\ UNCHANGED <<shared, spawnerVars, unitVars, cancelVars, pollVars, missVars, shutVars, moreVars>>

ApiPoller == ApiGet \/ ApiReturn

\* ----------------------------------------------------------------- shutdown
\* apps.py lines 29-30 and services.py lines 998-999: running_jobs holds the
\* ids whose entry in job_statuses has status 'processing'.
IsRunning(entry) == entry # NoEntry /\ entry.status = "processing"

\* signal_handler (SIGINT, SIGTERM) or cancel_all_jobs builds running_jobs.
ShutdownScan ==
    /\ hpc = "idle"
    /\ hmode' \in {"signal", "call"}
    /\ hpc' = IF IsRunning(cache) THEN "h_flag" ELSE "h_end"
    /\ UNCHANGED <<shared, hjob, hcount, spawnerVars, unitVars, cancelVars, pollVars,
                   missVars, apiVars, moreVars>>

\* cancel_job, line 143.
ShutdownSetFlag ==
    /\ hpc = "h_flag"
    /\ flag' = TRUE
    /\ hpc' = IF SkipsUpdate(TRUE, "failed") THEN "h_delcache" ELSE "h_cache"
    /\ UNCHANGED <<row, cache, threads, tracks, files, wav, timedOut, hmode, hjob, hcount,
                   spawnerVars, unitVars, cancelVars, pollVars, missVars, apiVars, moreVars>>

\* update_job_status(job_id, 'failed', 'cancelled', 0, ...), line 174
ShutdownCache ==
    /\ hpc = "h_cache"
    /\ cache' = Snapshot("failed", "cancelled", 0)
    /\ hpc' = "h_get"
    /\ UNCHANGED <<row, flag, threads, tracks, files, wav, timedOut, hmode, hjob, hcount,
                   spawnerVars, unitVars, cancelVars, pollVars, missVars, apiVars, moreVars>>

\* ... line 183
ShutdownGet ==
    /\ hpc = "h_get"
    /\ hjob' = row
    /\ hpc' = "h_save"
    /\ UNCHANGED <<shared, hmode, hcount, spawnerVars, unitVars, cancelVars, pollVars,
                   missVars, apiVars, moreVars>>

\* ... lines 184-199
ShutdownSave ==
    /\ hpc = "h_save"
    /\ row' = UpdatedJob(hjob, "failed", "cancelled", 0)
    /\ timedOut' = TimedOutAfterSave(hjob, row')
    /\ hjob' = NoJob
    /\ hpc' = "h_delcache"
    /\ UNCHANGED <<cache, flag, threads, tracks, files, wav, hmode, hcount, spawnerVars,
                   unitVars, cancelVars, pollVars, missVars, apiVars, moreVars>>

\* cancel_job, lines 149-150
ShutdownDelCache ==
    /\ hpc = "h_delcache"
    /\ cache' = NoEntry
    /\ hpc' = "h_delthreads"
    /\ UNCHANGED <<row, flag, threads, tracks, files, wav, timedOut, hmode, hjob, hcount,
                   spawnerVars, unitVars, cancelVars, pollVars, missVars, apiVars, moreVars>>

\* cancel_job, lines 152-156, returns True; the caller counts the job.
ShutdownDelThread ==
    /\ hpc = "h_delthreads"
    /\ threads' = FALSE
    /\ hcount' = hcount + 1
    /\ hpc' = "h_end"
    /\ UNCHANGED <<row, cache, flag, tracks, files, wav, timedOut, hmode, hjob,
                   spawnerVars, unitVars, cancelVars, pollVars, missVars, apiVars, moreVars>>

\* services.py line 1009: return cancelled_count
ShutdownReturn ==
    /\ hpc = "h_end"
    /\ hmode = "call"
    /\ hpc' = "returned"
    /\ UNCHANGED <<shared, hmode, hjob, hcount, spawnerVars, unitVars, cancelVars, pollVars,
                   missVars, apiVars, moreVars>>

\* apps.py line 52: sys.exit(0).  The process ends, and with it the request
\* thread of the upload and the unit, a daemon thread, wherever they are.
ShutdownExit ==
    /\ hpc = "h_end"
    /\ hmode = "signal"
    /\ hpc' = "exited"
    /\ spc' = "dead"
    /\ upc' = "dead"
    /\ usub' = "none"
    /\ UNCHANGED <<shared, hmode, hjob, hcount, ujob, n, mock, idx, observed, cancelVars,
                   pollVars, missVars, apiVars, moreVars>>

Shutdown ==
    \/ ShutdownScan \/ ShutdownSetFlag \/ ShutdownCache \/ ShutdownGet \/ ShutdownSave
    \/ ShutdownDelCache \/ ShutdownDelThread \/ ShutdownReturn \/ ShutdownExit

\* ------------------------------------------------------------ storage errors
\* update_job_status, lines 202-207: objects.get or job.save() raises; the
\* except logs the error and the call returns None as it does on success.
UnitUjsStorageError ==
    /\ Instr(upc).op = "ujs"
    /\ usub \in {"get", "save"}
    /\ usub' = "none"
    /\ ujob' = NoJob
    /\ upc' = Instr(upc).next
    /\ UNCHANGED <<shared, n, mock, idx, observed, spawnerVars, cancelVars, pollVars,
                   restVars>>

\* finalize_processing, lines 737-740: objects.get or job.save() raises, and
\* the except of line 785 raises it again.
FinalizeStorageError ==
    /\ \/ At("fn_get")
       \/ At("fn_save")
    /\ Raise
    /\ ujob' = NoJob
    /\ UNCHANGED <<shared, n, mock, observed, spawnerVars, cancelVars, pollVars, restVars>>

\* run_separation_pipeline, lines 843-844: the error_message update fails and
\* the failure is logged.
ErrorStorageError ==
    /\ \/ At("err_get")
       \/ At("err_save")
    /\ ujob' = NoJob
    /\ upc' = "rj_threads"
    /\ UNCHANGED <<shared, usub, n, mock, idx, observed, spawnerVars, cancelVars, pollVars,
                   restVars>>

StorageError == UnitUjsStorageError \/ FinalizeStorageError \/ ErrorStorageError

\* ------------------------------------------------------ update_speaker_name
\* A speaker_label of a request: `core` characters of text, followed by
\* `trail` whitespace characters; `legal` says that the text matches
\* ^[a-zA-Z0-9\s\-_]+$ (forms.py, line 109).
Labels == [core : {1, MaxLabelLen, MaxLabelLen + 1}, trail : 0..MaxPad, legal : BOOLEAN]

\* len(speaker_label) as the client sent it.
RawLen(label) == label.core + label.trail

\* data.get('speaker_label', '').strip()
Strip(label) == [label EXCEPT !.trail = 0]

IsValidAnyLength(label) == label.core = 0 \/ label.legal
\* SpeakerLabelForm.is_valid(): max_length=100 of the field, then
\* clean_speaker_label.
IsValid(label) ==
    /\ RawLen(Strip(label)) <= MaxLabelLen
    /\ label.core = 0 \/ label.legal

\* Speaker ids a request names: those of the tracks the job can have, and one
\* more that no track of the job has.
SpeakerIds == 0..MaxSpeakers

\* SpeakerTrack.objects.get(job=job, speaker_id=speaker_id) finds a track.
HasTrack(speaker) == speaker < tracks

\* update_speaker_name, lines 137-161: the label is stripped, the form is
\* validated; an invalid form is answered with status 400.
LabelRequest ==
    /\ lpc = "idle"
    /\ \E speaker \in SpeakerIds, label \in Labels :
          /\ lin' = [speaker |-> speaker, label |-> label]
          /\ IF IsValid(Strip(label))
             THEN lpc' = "l_update" /\ lres' = "none"
             ELSE lpc' = "idle" /\ lres' = "invalid"
    /\ UNCHANGED <<shared, tlabel, transVars, poolVars, spawnerVars, unitVars, cancelVars,
                   pollVars, missVars, apiVars, shutVars, mcancelVars>>

\* update_speaker_label, lines 1012-1023, and the answer of the view, lines
\* 162-172: the track of (job, speaker_id) gets the label; DoesNotExist is
\* caught, the function returns False and the view answers with status 500.
LabelUpdate ==
    /\ lpc = "l_update"
    /\ IF HasTrack(lin.speaker)
       THEN /\ tlabel' = [tlabel EXCEPT ![lin.speaker] = Strip(lin.label).core]
            /\ lres' = "success"
       ELSE /\ lres' = "failed"
            /\ UNCHANGED tlabel
    /\ lpc' = "idle"
    /\ UNCHANGED <<shared, lin, transVars, poolVars, spawnerVars, unitVars, cancelVars,
                   pollVars, missVars, apiVars, shutVars, mcancelVars>>

Labeller == LabelRequest \/ LabelUpdate

\* -------------------------------------------- fallback speaker assignment
\* Segment times are seconds as floats in the program; here a time is a whole
\* number of half milliseconds, so that int(t * 1000) has something to drop.
UnitsPerMs == 2

Seconds(t) == t * 1000 * UnitsPerMs

TimePoints == {Seconds(k) + h : k \in 0..MaxTime, h \in 0..(UnitsPerMs - 1)}

Segments == {sg \in [start : TimePoints, end : TimePoints] : sg.start <= sg.end}

\* The engine returns the segments in the order of the recording.
Chronological(segments) ==
    \A i \in 1..(Len(segments) - 1) : segments[i].end <= segments[i + 1].start

Transcripts ==
    {t \in UNION {[1..k -> Segments] : k \in 0..MaxSegments} : Chronological(t)}

TogglesAtThreshold(start_time, last_end_time) ==
    start_time - last_end_time >= Seconds(GapSeconds)
\* if start_time - last_end_time > 2.0
Toggles(start_time, last_end_time) ==
    start_time - last_end_time > Seconds(GapSeconds)

\* The loop `for segment in segments` of lines 546-553 from segment i on.
RECURSIVE GapLabels(_, _, _, _)
GapLabels(segments, i, current_speaker, last_end_time) ==
    IF i > Len(segments)
    THEN <<>>
    ELSE LET speaker == IF Toggles(segments[i].start, last_end_time)
                        THEN 1 - current_speaker
                        ELSE current_speaker
         IN  <<speaker>> \o GapLabels(segments, i + 1, speaker, segments[i].end)

\* Lines 540-559 (and their copy, lines 514-531): the number k stands for
\* the identity SPEAKER_0k.
HeuristicLabels(segments) ==
    IF Len(segments) > 1
    THEN GapLabels(segments, 1, 0, 0)
    ELSE [i \in 1..Len(segments) |-> 0]

\* int(segment['start'] * 1000)
Ms(t) == t \div UnitsPerMs

\* len(audio[start_ms:end_ms]), for a segment inside the recording.
SpanLength(segment) == Ms(segment.end) - Ms(segment.start)

\* The keys of speaker_segments, lines 671-680.
SpeakerSet(labels) == {labels[i] : i \in 1..Len(labels)}

\* len(speaker_audio) after the loop of lines 705-712 has run from segment i on.
RECURSIVE TrackLength(_, _, _, _)
TrackLength(segments, labels, speaker, i) ==
    IF i > Len(segments)
    THEN 0
    ELSE (IF labels[i] = speaker THEN SpanLength(segments[i]) + SilenceMs ELSE 0)
         + TrackLength(segments, labels, speaker, i + 1)

\* The files separate_speakers exports, by their length in ms.
TrackLengths(segments, labels) ==
    [speaker \in SpeakerSet(labels) |-> TrackLength(segments, labels, speaker, 1)]

jobVars ==
    <<shared, spawnerVars, unitVars, cancelVars, pollVars, missVars, apiVars, shutVars,
      labelVars, poolVars, mcancelVars>>

\* The fallback of run_whisperx_transcription labels the transcript.
ApplyFallback ==
    /\ segs # <<>>
    /\ spk = <<>>
    /\ spk' = HeuristicLabels(segs)
    /\ UNCHANGED <<segs, tlen, jobVars>>

\* separate_speakers cuts the tracks of the labelled transcript.
SeparateTracks ==
    /\ spk # <<>>
    /\ tlen = <<>>
    /\ tlen' = TrackLengths(segs, spk)
    /\ UNCHANGED <<segs, spk, jobVars>>

\* ------------------------------------------------------------- other jobs
\* upload_file for another job: create_processing_job, then
\* start_processing_job starts a thread for it, whatever is running.
SubmitOther ==
    /\ others < MaxOthers
    /\ others' = others + 1
    /\ UNCHANGED <<shared, spawnerVars, unitVars, cancelVars, pollVars, missVars, apiVars,
                   shutVars, labelVars, transVars, mcancelVars>>

\* run_job of another job returns.
OtherReturns ==
    /\ others > 0
    /\ others' = others - 1
    /\ UNCHANGED <<shared, spawnerVars, unitVars, cancelVars, pollVars, missVars, apiVars,
                   shutVars, labelVars, transVars, mcancelVars>>

Pool == SubmitOther \/ OtherReturns

\* The thread of the job has been started and run_job has not returned.
UnitRunning == upc \notin {"idle", "done", "dead"}

\* Number of threads that are inside run_job.
RunningUnits == others + (IF UnitRunning THEN 1 ELSE 0)

\* ------------------------------------------------ cancel_job, unknown job id
\* cancel_job, line 143, for a job id that has no row.
CancelMissingSetFlag ==
    /\ mcpc = "idle"
    /\ ~missing.row
    /\ missing' = [missing EXCEPT !.flag = TRUE]
    /\ mcpc' = IF SkipsUpdate(TRUE, "failed") THEN "m_delcache" ELSE "m_cache"
    /\ UNCHANGED <<shared, mpolled, mres, spawnerVars, unitVars, cancelVars, pollVars, apiVars,
                   shutVars, labelVars, transVars, poolVars>>

\* update_job_status(job_id, 'failed', 'cancelled', 0, ...), line 174.
CancelMissingCache ==
    /\ mcpc = "m_cache"
    /\ missing' = [missing EXCEPT !.cache = Snapshot("failed", "cancelled", 0)]
    /\ mcpc' = "m_get"
    /\ UNCHANGED <<shared, mpolled, mres, spawnerVars, unitVars, cancelVars, pollVars, apiVars,
                   shutVars, labelVars, transVars, poolVars>>

\* Line 183: objects.get raises DoesNotExist; the except of lines 204-207
\* logs it and update_job_status returns None to cancel_job.
CancelMissingGet ==
    /\ mcpc = "m_get"
    /\ mcpc' = "m_delcache"
    /\ UNCHANGED <<shared, missVars, mres, spawnerVars, unitVars, cancelVars, pollVars, apiVars,
                   shutVars, labelVars, transVars, poolVars>>

\* cancel_job, lines 149-150: del job_statuses[job_id]
CancelMissingDelCache ==
    /\ mcpc = "m_delcache"
    /\ missing' = [missing EXCEPT !.cache = NoEntry]
    /\ mcpc' = "m_delthreads"
    /\ UNCHANGED <<shared, mpolled, mres, spawnerVars, unitVars, cancelVars, pollVars, apiVars,
                   shutVars, labelVars, transVars, poolVars>>

\* cancel_job, lines 152-156: del job_threads[job_id]; return True
CancelMissingReturn ==
    /\ mcpc = "m_delthreads"
    /\ missing' = [missing EXCEPT !.threads = FALSE]
    /\ mres' = "true"
    /\ mcpc' = "idle"
    /\ UNCHANGED <<shared, mpolled, spawnerVars, unitVars, cancelVars, pollVars, apiVars,
                   shutVars, labelVars, transVars, poolVars>>

MissingCanceller ==
    \/ CancelMissingSetFlag \/ CancelMissingCache \/ CancelMissingGet
    \/ CancelMissingDelCache \/ CancelMissingReturn

\* --------------------------------------------------------------------- time
\* Thirty minutes pass after started_at.
Tick ==
    /\ row.started_at
    /\ ~timedOut
    /\ timedOut' = TRUE
    /\ UNCHANGED <<row, cache, flag, threads, tracks, files, wav, spawnerVars, unitVars,
                   cancelVars, pollVars, restVars>>

Spawner == StartThread \/ RegisterThread

\* The unit and cancel requests.
NextCancel == Spawner \/ Unit \/ Canceller

SpecCancel == Init /\ [][NextCancel]_vars

\* The unit and status polls.
NextPoll == Spawner \/ Unit \/ Poller

SpecPoll == Init /\ [][NextPoll]_vars

\* The unit and reaper scans.
NextReaper == Spawner \/ Unit \/ Reaper \/ Tick

SpecReaper == Init /\ [][NextReaper]_vars

\* The unit, status polls and the reaper scans they start.
NextStatus == Spawner \/ Unit \/ Reaper \/ Poller \/ Tick

SpecStatus == Init /\ [][NextStatus]_vars

\* The unit, with a durable store whose reads and writes may fail.
NextStorage == Spawner \/ Unit \/ StorageError

SpecStorage == Init /\ [][NextStorage]_vars

\* The unit, reaper scans and status polls for a job id that has no row.
NextMissing == Spawner \/ Unit \/ Reaper \/ MissingPoller \/ Tick

SpecMissing == Init /\ [][NextMissing]_vars

\* The unit and the status polls of views.status_api.
NextApi == Spawner \/ Unit \/ ApiPoller

SpecApi == Init /\ [][NextApi]_vars

\* The unit and a termination signal or a cancel_all_jobs call.
NextShutdown == Spawner \/ Unit \/ Shutdown

SpecShutdown == Init /\ [][NextShutdown]_vars

\* The unit and the label requests of the result page.
NextLabel == Spawner \/ Unit \/ Labeller

SpecLabel == Init /\ [][NextLabel]_vars

\* The unit and cancel_job calls for an id that has no row.
NextMissingCancel == Spawner \/ Unit \/ MissingCanceller

SpecMissingCancel == Init /\ [][NextMissingCancel]_vars

\* The unit and the uploads of other jobs.
NextPool == Spawner \/ Unit \/ Pool

SpecPool == Init /\ [][NextPool]_vars

\* The fallback speaker assignment and separate_speakers, on every transcript.
InitTranscript == InitJob /\ segs \in Transcripts

NextTranscript == ApplyFallback \/ SeparateTracks

SpecTranscript == InitTranscript /\ [][NextTranscript]_vars

\* ------------------------------------------------------------------- claims
Terminal == {"completed", "failed"}

\* The step values of the job state machine.
StepValues ==
    {"uploaded", "converting", "transcribing", "separating", "finalizing", "completed",
     "cancelled", "error"}

\* C1: once cancel_job has made the durable record failed/cancelled, the
\* record stays failed/cancelled: no later write of the unit replaces the
\* step cancelled by another step.
C1_CancelledStays ==
    [][(row.status = "failed" /\ row.step = "cancelled")
        => (row'.status = "failed" /\ row'.step = "cancelled")]_vars

\* C2: once the unit has observed the cancellation flag at a cancellation
\* check, it is in no stage any more: neither in convert_to_wav, in
\* run_whisperx_transcription, in _run_mock_whisperx, in separate_speakers
\* nor in finalize_processing.
C2_NoStageAfterObserved == observed => StageOf(upc) = "none"

\* C3: cancel_job's write leaves a durable record that is completed or failed
\* as it is, and a record that has become completed stays completed.
C3_TerminalSurvivesCancel ==
    [][/\ (cpc = "cj_save" /\ cpc' # "cj_save" /\ row.status \in Terminal)
            => SnapshotOf(row') = SnapshotOf(row)
       /\ row.status = "completed" => row'.status = "completed"]_vars

\* C4: a durable record that has become failed never becomes processing or
\* completed afterwards.
C4_FailedIsFinal ==
    [][row.status = "failed" => row'.status \notin {"processing", "completed"}]_vars

\* C5: no lost update: every save of the job row (update_job_status in the
\* unit and in cancel_job, finalize_processing's save, the pipeline's
\* error_message save) writes over the row exactly as the writer read it.
C5_NoLostUpdate ==
    [][/\ (usub = "save" /\ usub' # "save") => row = ujob
       /\ (upc = "fn_save" /\ upc' = "fn_loop") => row = ujob
       /\ (upc = "err_save" /\ upc' # "err_save") => row = ujob
       /\ (cpc = "cj_save" /\ cpc' # "cj_save") => row = cjob]_vars

\* C6: when the row get_job_status has loaded is completed or failed, the
\* call returns the status, step and progress of that row, whatever entry
\* job_statuses holds.
C6_TerminalStatusFromRow ==
    [][(qpc = "g_ret" /\ qpc' = "idle" /\ qjob.status \in Terminal)
        => polled' = SnapshotOf(qjob)]_vars

\* C6, witness: get_job_status is about to answer for a failed or completed
\* row while job_statuses holds a different entry for the job.
C6_StaleEntryAtReturn ==
    /\ qpc = "g_ret"
    /\ qjob.status \in Terminal
    /\ cache # NoEntry
    /\ cache # SnapshotOf(qjob)

\* C7: after a reaper scan that began with the job processing for more than
\* 30 minutes, the durable record is failed with step error, progress 0 and
\* the timeout message.
C7_ScanFailsStaleJob ==
    (qpc = "r_end" /\ stale)
        => /\ row.status = "failed"
           /\ row.step = "error"
           /\ row.progress = 0
           /\ row.error_message = "timeout"

\* C8: after a scan that force-failed the job, the job has no entry in
\* job_statuses and none in job_threads.
C8_ReapedJobEvicted == (qpc = "r_end" /\ reaped) => (cache = NoEntry /\ ~threads)

\* C9: of two consecutive get_job_status answers that both report status
\* processing, the second reports no smaller progress than the first.
C9_ProgressMonotone ==
    [][(polled.status = "processing" /\ polled'.status = "processing")
        => polled'.progress >= polled.progress]_vars

\* C10: every step value written to the durable record or to job_statuses is
\* one of uploaded, converting, transcribing, separating, finalizing,
\* completed, cancelled, error.
C10_StepValuesOnly ==
    /\ row.step \in StepValues
    /\ cache # NoEntry => cache.step \in StepValues

\* C11: update_job_status writes the durable record before the cache entry
\* (when the cache entry is written the row already holds that snapshot), and
\* a call whose durable read or write fails raises to its caller and leaves
\* job_statuses without the snapshot that was not stored.
C11_DurableFirstAndReported ==
    [][/\ (usub = "cache" /\ usub' = "get") => SnapshotOf(row) = cache'
       /\ (usub \in {"get", "save"} /\ usub' = "none" /\ row' = row)
            => /\ upc' = Handler(upc)
               /\ cache' # Snapshot(Instr(upc).status, Instr(upc).step, Instr(upc).progress)]_vars

\* C12: once the unit has terminated, job_threads holds no entry for the job
\* and gets none afterwards.
C12_NoEntryAfterUnit == [][upc = "done" => ~threads']_vars

\* C13: when a cancel_job call has returned before the unit called
\* convert_to_wav, the unit ends with the durable record failed/cancelled/0,
\* no converted file, no speaker file and no SpeakerTrack row.
C13_EarlyCancelEndsCancelled ==
    (early /\ upc = "done")
        => /\ SnapshotOf(row) = Snapshot("failed", "cancelled", 0)
           /\ ~wav
           /\ files = 0
           /\ tracks = 0

\* C14: the SpeakerTrack rows of the job are none, or one for each speaker
\* file of the job, in every state.
C14_TracksAllOrNothing == tracks = 0 \/ tracks = files

\* C15: when signal_handler or cancel_all_jobs builds its list of running
\* jobs, a job whose durable status is processing at that moment is on the
\* list, so that cancel_job sets its flag and writes failed/cancelled.
C15_ShutdownCancelsProcessing ==
    [][(hpc = "idle" /\ hpc' # "idle" /\ row.status = "processing") => hpc' = "h_flag"]_vars

\* C16: with no cancellation requested, the except of run_separation_pipeline
\* leaves the durable record failed/error/0 with an error message within the
\* length bound, and a job whose transcription stage raised an exception
\* (the only way into _run_mock_whisperx) does not become completed.
C16_StageErrorFailsJob ==
    [][/\ (upc = "err_save" /\ upc' = "rj_threads")
            => /\ SnapshotOf(row') = Snapshot("failed", "error", 0)
               /\ row'.error_message = "error"
       /\ mock => row'.status # "completed"]_vars

\* C17: _run_mock_whisperx returns the fixed result of 6 segments that
\* alternate between 2 speakers, the unit goes on to separate_speakers with
\* it, and when the pipeline has run through finalize_processing on it the
\* durable record is completed, progress 100, speaker_count 2, with one
\* speaker file and one SpeakerTrack row for each of the two speakers.
C17_MockResultCompletes ==
    [][/\ (upc = "mk_loop" /\ upc' \notin {"mk_loop", "mk_ujs"})
            => /\ upc' = "sp_chk1"
               /\ mock'
               /\ n' = MockSpeakers
               /\ Len(MockResult) = 6
               /\ \A i \in 1..(Len(MockResult) - 1) : MockResult[i] # MockResult[i + 1]
       /\ (mock /\ upc = "p_cleanup" /\ upc' # "p_cleanup")
            => /\ SnapshotOf(row) = Snapshot("completed", "completed", 100)
               /\ row.speaker_count = MockSpeakers
               /\ files = MockSpeakers
               /\ tracks = MockSpeakers]_vars

\* C17, witness: the pipeline has finished finalize_processing on the mock
\* result.
C17_MockRunFinalized == mock /\ upc = "p_cleanup" /\ row.status = "completed"

\* C18: while the unit is running, job_threads holds an entry for the job.
C18_RunningUnitRegistered == upc \notin {"idle", "done"} => threads

\* C19: a get_job_status call of status_api that has loaded a pending or
\* processing row returns the entry update_job_status has stored for the job
\* when there is one; when there is none it returns the snapshot of the row
\* and that snapshot is the job's entry afterwards.
C19_CacheEntryReturned ==
    [][(apc = "g_ret" /\ apc' = "idle" /\ ajob.status \in {"pending", "processing"})
        => IF cache # NoEntry
           THEN apolled' = cache
           ELSE apolled' = SnapshotOf(ajob) /\ cache' = SnapshotOf(ajob)]_vars

\* C20: get_job_status for a job id that has no row returns the not_found
\* dictionary, and no step of the call (the reaper scan it may start
\* included) creates a row, a job_statuses entry, a job_cancellations entry
\* or a job_threads entry for that id.
C20_UnknownIdNotFound ==
    [][/\ missing' = NoRecord
       /\ (qpc = "g_none" /\ qpc' = "idle") => mpolled' = NotFound]_vars

\* C20, witness: a call for the unknown id has returned after a reaper scan
\* that force-failed the known job.
C20_UnknownIdAnswered == mpolled = NotFound /\ qpc = "idle" /\ row.error_message = "timeout"

\* C21: update_speaker_label changes a label only when the durable status of
\* the job is completed; for a job that is pending, processing or failed it
\* changes no label and reports failure.
C21_LabelOnlyWhenCompleted ==
    [][(lpc = "l_update" /\ lpc' = "idle" /\ row.status # "completed")
           => (lres' = "failed" /\ tlabel' = tlabel)]_vars

\* C22 as stated: on a completed job a label update for a speaker id without a
\* track is an error and changes no track, and a request with a valid speaker
\* id and a label of 101 characters never reaches update_speaker_label.
C22_RawLengthRejected ==
    [][/\ (lpc = "l_update" /\ lpc' = "idle" /\ row.status = "completed" /\ ~HasTrack(lin.speaker))
           => (lres' = "failed" /\ tlabel' = tlabel)
       /\ (lpc = "idle" /\ lpc' = "l_update" /\ row.status = "completed" /\ HasTrack(lin'.speaker))
           => RawLen(lin'.label) # MaxLabelLen + 1]_vars

\* C22 as amended: the same, for a label whose text has 101 characters once
\* the surrounding whitespace is stripped; the stored label changes only in
\* update_speaker_label and never to such a text.
C22_StrippedLengthRejected ==
    [][/\ (lpc = "l_update" /\ lpc' = "idle" /\ row.status = "completed" /\ ~HasTrack(lin.speaker))
           => (lres' = "failed" /\ tlabel' = tlabel)
       /\ (lpc = "idle" /\ lpc' = "l_update" /\ row.status = "completed" /\ HasTrack(lin'.speaker))
           => RawLen(Strip(lin'.label)) # MaxLabelLen + 1
       /\ (tlabel' # tlabel) => /\ lpc = "l_update"
                               /\ tlabel'[lin.speaker] # MaxLabelLen + 1]_vars

\* A label of 101 characters of text was rejected for a track of the
\* completed job.
C22_LongLabelRejected ==
    /\ lpc = "idle" /\ lres = "invalid"
    /\ RawLen(Strip(lin.label)) = MaxLabelLen + 1 /\ lin.label.legal
    /\ HasTrack(lin.speaker) /\ row.status = "completed"

\* The segments of a transcript that carry the identity `speaker`.
SpansOf(labels, speaker) == {i \in 1..Len(labels) : labels[i] = speaker}

RECURSIVE SpanSum(_, _)
SpanSum(segments, spans) ==
    IF spans = {}
    THEN 0
    ELSE LET i == CHOOSE j \in spans : TRUE
         IN  Ms(segments[i].end) - Ms(segments[i].start)
             + SpanSum(segments, spans \ {i})

\* C23: in the fallback, consecutive segments of a transcript of two or more
\* segments get different identities exactly when the second starts more than
\* 2.0 s after the first ends; a single segment gets one identity.
C23_GapSeparatesSpeakers ==
    (segs # <<>> /\ spk # <<>>) =>
        /\ Len(spk) = Len(segs)
        /\ Len(segs) = 1 => spk = <<0>>
        /\ \A i \in 1..(Len(segs) - 1) :
              (spk[i] # spk[i + 1]) <=> (segs[i + 1].start - segs[i].end > Seconds(2))

\* Three labelled segments: a gap above 2.0 s, then a gap of exactly 2.0 s.
C23_GapsLabelled ==
    /\ Len(segs) = 3 /\ Len(spk) = 3
    /\ segs[2].start - segs[1].end > Seconds(2) /\ spk[1] # spk[2]
    /\ segs[3].start - segs[2].end = Seconds(2) /\ spk[2] = spk[3]

\* C24: separate_speakers writes one file per identity of the transcript, and
\* the track of a speaker with n spans is as long as its spans together plus
\* 500 ms of silence between consecutive spans, 500 * (n - 1) ms.
C24_SilenceBetweenSpans ==
    (tlen # <<>>) =>
        /\ DOMAIN tlen = SpeakerSet(spk)
        /\ \A speaker \in DOMAIN tlen :
              tlen[speaker] = SpanSum(segs, SpansOf(spk, speaker))
                              + 500 * (Cardinality(SpansOf(spk, speaker)) - 1)

\* C25: a timeout of the alignment or of the diarization neither fails the
\* job nor replaces the transcript by the mock result: after the alignment
\* handler the unit goes on to the diarization, after the diarization handler
\* it goes on to separate_speakers with heuristic labels on the transcript of
\* the engine, and the row stays as it was.
C25_TimeoutContinues ==
    [][/\ (upc = "wx_noalign" /\ upc' # upc)
           => (upc' = "wx_chk4" /\ row' = row /\ row.status = "processing")
       /\ (upc = "wx_fallback" /\ upc' # upc)
           => (upc' = "sp_chk1" /\ ~mock' /\ row' = row /\ row.status = "processing")
       /\ (upc \in {"wx_align", "wx_diarize"} /\ upc' # upc)
           => upc' \notin {"mk_ujs35", "err_ujs"}]_vars

\* The diarization has timed out before its progress update: the unit is in
\* the handler, the alignment having been skipped or not.
C25_DiarizationTimedOut ==
    upc = "wx_fallback" /\ usub = "none" /\ row.progress = 55 /\ row.status = "processing"

\* C26: when the first decode of convert_to_wav fails, one more decode with
\* the format of the file extension is attempted; when that fails too the
\* unit goes to the handler that marks the job failed/error, when it
\* succeeds the unit goes on as after a first decode that succeeded.
C26_DecodeRetriedOnce ==
    [][/\ (upc = "cv_load" /\ upc' \notin {"cv_load", "cv_ujs20"}) => upc' = "cv_retry"
       /\ (upc = "cv_retry" /\ upc' # upc) => upc' \in {"cv_ujs20", "err_ujs"}]_vars

\* C27: started_at, once set, stays set; completed_at, once set, keeps its
\* value; completed_at is unset while the status is pending or processing.
C27_TimestampsSetOnce ==
    [][/\ row.started_at => row'.started_at
       /\ row.completed_at # "none" => row'.completed_at = row.completed_at
       /\ row'.status \in {"pending", "processing"} => row'.completed_at = "none"]_vars

\* C28: a row whose error_message is set has status failed, and the stored
\* message is one of bounded length.
C28_ErrorMessageOnlyWhenFailed ==
    row.error_message # "none" =>
        (row.status = "failed" /\ row.error_message \in {"cancelled", "timeout", "error"})

\* C29: every progress value the cache or the row holds is an integer in
\* 0..100, whatever the number of speakers, and a row with status completed
\* has progress 100 and step completed.
C29_ProgressInRange ==
    /\ row.progress \in 0..100
    /\ cache.progress \in 0..100
    /\ row.status = "completed" => (row.progress = 100 /\ row.step = "completed")
    /\ \A total \in 1..DiarizationMaxSpeakers : \A i \in 0..(total - 1) :
          /\ SpeakerProgress(i, total) \in 0..100
          /\ TrackProgress(i, total) \in 0..100

\* The engine's result with two or more speakers has been stored as completed.
C29_CompletedWithSpeakers == row.status = "completed" /\ ~mock /\ n >= 2 /\ tracks >= 2

\* C30: the number of jobs whose unit is running at the same time never
\* exceeds the configured ceiling.
C30_CeilingOnRunningUnits == RunningUnits <= MaxConcurrentJobs

\* The status, step and progress one single write stores together: the row
\* as created, the update_job_status calls of the unit and of cancel_job, and
\* the reaper's save.
WrittenSnapshots ==
    {SnapshotOf(NewJob), SnapshotOf(ReapedJob(NewJob)),
     Snapshot("failed", "cancelled", 0), Snapshot("failed", "error", 0),
     Snapshot("processing", "initializing", 5), Snapshot("completed", "completed", 100)}
    \cup {Snapshot("processing", "converting", p) : p \in {10, 15, 20, 25}}
    \cup {Snapshot("processing", "transcribing", p) : p \in {30, 35, 40, 50, 55, 58}}
    \cup {Snapshot("processing", "transcribing", MockProgress(i)) : i \in 0..(MockSteps - 1)}
    \cup {Snapshot("processing", "separating", 60), Snapshot("processing", "finalizing", 90)}
    \cup UNION {UNION {{Snapshot("processing", "separating", SpeakerProgress(i, total)),
                        Snapshot("processing", "finalizing", TrackProgress(i, total))}
                         : i \in 0..(total - 1)} : total \in 1..DiarizationMaxSpeakers}

C32_TerminatedUnitLeavesTerminal ==
    (upc = "done" /\ cpc = "idle") => row.status \in Terminal

\* C33: while the cancellation flag is set, a write of an update_job_status
\* call of the unit whose status is neither failed nor cancelled changes
\* neither the cache entry nor the durable record.
C33_NoUpdateWhileFlagged ==
    [][(flag /\ Instr(upc).op = "ujs" /\ Instr(upc).status \notin {"failed", "cancelled"})
         => /\ (usub = "cache" /\ usub' = "get") => cache' = cache
            /\ (usub = "save" /\ usub' = "none") => row' = row]_vars

\* C34: a job whose durable status is failed has no SpeakerTrack rows and no
\* speaker_count.
C34_NoResultsWhenFailed ==
    row.status = "failed" => (tracks = 0 /\ row.speaker_count = 0)

\* C35: once the unit has terminated and no cancel_job call is in progress,
\* job_cancellations holds no entry for the job.
C35_NoFlagAfterUnit == (upc = "done" /\ cpc = "idle") => ~flag

\* No write for the job is in progress: no thread is inside update_job_status,
\* between the objects.get and the save of finalize_processing or of the
\* error handler, inside cancel_job, a reaper scan or get_job_status.
NoWriteInProgress ==
    /\ usub = "none" /\ upc \notin {"fn_save", "err_save"}
    /\ cpc = "idle" /\ qpc = "idle" /\ apc = "idle" /\ hpc = "idle"

\* C36: whenever no write for the job is in progress, the cache entry of the
\* job, if there is one, has the status, step and progress of the durable
\* record.
C36_CacheAgreesWithRow ==
    (NoWriteInProgress /\ cache # NoEntry) => cache = SnapshotOf(row)

\* C37: a reaper scan changes only a stale job: the scan saves the row only
\* when the job is processing and started more than 30 minutes ago, and a
\* job the scan finds not stale keeps its row and its cache entry.
C37_ScanChangesOnlyStale ==
    [][/\ (qpc = "r_save" /\ qpc' = "r_del") => IsStale(row)
       /\ (qpc = "r_get" /\ qpc' = "r_end" /\ ~IsStale(row))
            => (row' = row /\ cache' = cache)]_vars

\* C38: cancel_job for a job id that has no durable record returns False and
\* leaves no entry for the id in job_cancellations, job_statuses or
\* job_threads.
C38_UnknownCancelLeavesNoTrace ==
    (mcpc = "idle" /\ mres # "none") => (mres = "false" /\ missing = NoRecord)
====
